---- MODULE Spec2Model ----
(***************************************************************************)
(* A model of pyhorizon (src/pyhorizon/pyhorizon.py): the HTTP gateway     *)
(* (base_request, raise_status, the endpoint catalogue), the structural    *)
(* search find_in_response, and the image pipeline image_walk/save_image.  *)
(*                                                                         *)
(* Python values are records [t, s, n, kids]:                              *)
(*   t = "str"  : a string, s the pieces whose concatenation it is (single *)
(*                characters wherever the code looks inside the string)    *)
(*   t = "int"  : an integer n                                             *)
(*   t = "null" : None                                                     *)
(*   t = "list" : kids[i].val the elements, in order                       *)
(*   t = "dict" : kids[i] = [key, val] the items, in iteration order       *)
(* A path segment is itself a Python value (a key string, an int index or  *)
(* the matched value), exactly as find_in_response appends them.           *)
(***************************************************************************)
EXTENDS Integers, Sequences, FiniteSets, TLC

\* ------------------------------------------------------------------ bounds
\* Largest body searched by find_in_response alone, counted in JSON nodes.
MaxNodes == 4
\* Largest response body handed to image_walk, counted in JSON nodes.
MaxWalkNodes == 3
\* Most optional keyword arguments passed in one endpoint call.
MaxKwargs == 1

\* ------------------------------------------------------------ Python values
Str(chars) == [t |-> "str", s |-> chars, n |-> 0, kids |-> <<>>]
PyInt(i) == [t |-> "int", s |-> <<>>, n |-> i, kids |-> <<>>]
None == [t |-> "null", s |-> <<>>, n |-> 0, kids |-> <<>>]
Item(key, value) == [key |-> key, val |-> value]
List(items) == [t |-> "list", s |-> <<>>, n |-> 0, kids |-> items]
Dict(items) == [t |-> "dict", s |-> <<>>, n |-> 0, kids |-> items]

\* The three keys image_walk searches for.
img_src == <<"i", "m", "g", "_", "s", "r", "c">>
url == <<"u", "r", "l">>
hdurl == <<"h", "d", "u", "r", "l">>

\* condition == key, condition == value: Python's == on the values above.
\* Every condition of the model is a scalar, for which == is structural.
PyEq(a, b) == a = b

\* --------------------------------------------------------- find_in_response
RECURSIVE find_in_response(_, _, _)
RECURSIVE FindInList(_, _, _, _)
RECURSIVE FindInDict(_, _, _, _)

\* Lines 80-89: the pair's own match, key before value.
PairMatch(condition, key, value, path) ==
    IF PyEq(condition, Str(key))
    THEN << Append(path, Str(key)) >>
    ELSE IF PyEq(condition, value)
         THEN << Append(Append(path, Str(key)), value) >>
         ELSE << >>

\* A faulty variant of FindInDict: a pair's own match is yielded before the matches
\* found inside its value.
FindInDictOwnFirst(items, i, condition, path) ==
    IF i > Len(items) THEN << >>
    ELSE PairMatch(condition, items[i].key, items[i].val, path)
         \o find_in_response(items[i].val, condition,
                             Append(path, Str(items[i].key)))
         \o FindInDict(items, i + 1, condition, path)

\* Lines 74-89: the loop over obj.items(), from the i-th item on.
FindInDict(items, i, condition, path) ==
    IF i > Len(items) THEN << >>
    ELSE find_in_response(items[i].val, condition,
                          Append(path, Str(items[i].key)))
         \o PairMatch(condition, items[i].key, items[i].val, path)
         \o FindInDict(items, i + 1, condition, path)

\* Lines 67-71: the loop over enumerate(obj), from the i-th element on
\* (Python's index is i - 1).
FindInList(items, i, condition, path) ==
    IF i > Len(items) THEN << >>
    ELSE find_in_response(items[i].val, condition, Append(path, PyInt(i - 1)))
         \o FindInList(items, i + 1, condition, path)

\* The generator, as the sequence of the paths it yields.
find_in_response(obj, condition, path) ==
    IF obj.t = "list" THEN FindInList(obj.kids, 1, condition, path)
    ELSE IF obj.t = "dict" THEN FindInDict(obj.kids, 1, condition, path)
    ELSE << >>

\* ------------------------------------------------------------------ lookups
\* obj[seg] (line 336): the value, or Err when Python raises (TypeError,
\* KeyError, IndexError).
Err == [t |-> "error", s |-> <<>>, n |-> 0, kids |-> <<>>]

GetItem(obj, seg) ==
    IF obj.t = "list"
    THEN IF seg.t = "int" /\ seg.n >= 0 /\ seg.n < Len(obj.kids)
         THEN obj.kids[seg.n + 1].val
         ELSE Err
    ELSE IF obj.t = "dict"
    THEN IF seg.t = "str" /\ \E i \in 1..Len(obj.kids) : obj.kids[i].key = seg.s
         THEN obj.kids[CHOOSE i \in 1..Len(obj.kids) : obj.kids[i].key = seg.s].val
         ELSE Err
    ELSE IF obj.t = "str"
    THEN IF seg.t = "int" /\ seg.n >= 0 /\ seg.n < Len(obj.s)
         THEN Str(<< obj.s[seg.n + 1] >>)
         ELSE Err
    ELSE Err

\* Lines 334-336: image = response_body; for value in find: image = image[value]
RECURSIVE WalkPath(_, _, _)
WalkPath(image, find, i) ==
    IF i > Len(find) \/ image = Err THEN image
    ELSE WalkPath(GetItem(image, find[i]), find, i + 1)

Resolve(response_body, find) == WalkPath(response_body, find, 1)

\* ------------------------------------------------------------ input bodies
\* Image URLs: one with an upper-case extension, and one without extension
\* whose only dot is in the host part.
UrlA == <<"h", "t", "t", "p", ":", "/", "/", "x", "/", "a", ".", "J", "P", "G">>
UrlB == <<"h", "t", "t", "p", ":", "/", "/", "x", ".", "y", "/", "b">>

RECURSIVE ValuesOfSize(_, _, _)
RECURSIVE ListItems(_, _, _)
RECURSIVE DictItems(_, _, _, _)

\* The element sequences of total size m.
ListItems(m, scalars, keys) ==
    IF m = 0 THEN {<< >>}
    ELSE UNION {{ <<Item(<< >>, v)>> \o rest :
                    v \in ValuesOfSize(j, scalars, keys),
                    rest \in ListItems(m - j, scalars, keys) } :
                j \in 1..m}

\* The item sequences of total size m with distinct keys among avail.
DictItems(m, scalars, keys, avail) ==
    IF m = 0 THEN {<< >>}
    ELSE UNION {{ <<Item(k, v)>> \o rest :
                    v \in ValuesOfSize(j, scalars, keys),
                    rest \in DictItems(m - j, scalars, keys, avail \ {k}) } :
                <<j, k>> \in (1..m) \X avail}

\* The JSON values of exactly n nodes.
ValuesOfSize(n, scalars, keys) ==
    IF n = 1 THEN scalars \cup {List(<< >>), Dict(<< >>)}
    ELSE {List(items) : items \in ListItems(n - 1, scalars, keys)}
         \cup {Dict(items) : items \in DictItems(n - 1, scalars, keys, keys)}

\* Inputs of the search alone.
FindBodies ==
    UNION {ValuesOfSize(n, {Str(img_src), PyInt(0)}, {img_src, url}) :
           n \in 1..MaxNodes}
Conditions == {Str(img_src), Str(url), PyInt(0)}

\* Inputs of image_walk.
WalkBodies ==
    UNION {ValuesOfSize(n, {Str(UrlA), Str(UrlB), Str(img_src), PyInt(0)},
                        {img_src, url, hdurl}) :
           n \in 1..MaxWalkNodes}

\* ------------------------------------------------------- string helpers
\* p.rfind(ch) + 1: the last position of ch in p, 0 when there is none.
RFind(p, ch) ==
    IF \E j \in 1..Len(p) : p[j] = ch
    THEN CHOOSE j \in 1..Len(p) : p[j] = ch /\ \A m \in (j + 1)..Len(p) : p[m] # ch
    ELSE 0

\* os.path.splitext(p) (line 317): the extension starts at the last dot of
\* the last path component, leading dots of the component skipped.
splitext(p) ==
    LET sepIndex == RFind(p, "/")
        dotIndex == RFind(p, ".")
    IN  IF dotIndex > sepIndex
           /\ \E filenameIndex \in (sepIndex + 1)..(dotIndex - 1) :
                 p[filenameIndex] # "."
        THEN << SubSeq(p, 1, dotIndex - 1), SubSeq(p, dotIndex, Len(p)) >>
        ELSE << p, << >> >>

UpperChars == << "A", "B", "C", "D", "E", "F", "G", "H", "I", "J", "K", "L", "M",
                 "N", "O", "P", "Q", "R", "S", "T", "U", "V", "W", "X", "Y", "Z" >>
LowerChars == << "a", "b", "c", "d", "e", "f", "g", "h", "i", "j", "k", "l", "m",
                 "n", "o", "p", "q", "r", "s", "t", "u", "v", "w", "x", "y", "z" >>

\* str.lower() (line 317).
lower(p) ==
    [j \in 1..Len(p) |->
        IF \E m \in 1..Len(UpperChars) : UpperChars[m] = p[j]
        THEN LowerChars[CHOOSE m \in 1..Len(UpperChars) : UpperChars[m] = p[j]]
        ELSE p[j]]

\* '{count}'.format(count=n) (line 337): n >= 0 in decimal.
Digits == << "0", "1", "2", "3", "4", "5", "6", "7", "8", "9" >>
RECURSIVE Decimal(_)
Decimal(n) ==
    IF n < 10 THEN << Digits[n + 1] >>
    ELSE Append(Decimal(n \div 10), Digits[(n % 10) + 1])

\* os.path.join(a, b) (line 320), POSIX.
join(a, b) ==
    IF Len(b) > 0 /\ b[1] = "/" THEN b
    ELSE IF Len(a) = 0 \/ a[Len(a)] = "/" THEN a \o b
    ELSE a \o << "/" >> \o b

\* A faulty variant of Ext: the extension keeps its case.
ExtKeepCase(img) ==
    IF splitext(img)[2] = << >> THEN << ".", "j", "p", "g" >>
    ELSE splitext(img)[2]

\* Lines 317-319: ext = os.path.splitext(img)[1].lower(), '.jpg' when empty.
Ext(img) ==
    IF lower(splitext(img)[2]) = << >> THEN << ".", "j", "p", "g" >>
    ELSE lower(splitext(img)[2])

\* Line 337: name='{name}{count}'.format(name=name, count=i+1), idx the
\* 0-based loop index.
SaveName(nm, idx) == nm \o Decimal(idx + 1)

\* Line 320: the path save_image opens.
TargetPath(img, dir, nm) == join(dir, nm \o Ext(img))

\* ------------------------------------------------------------- file system
\* A file system maps the paths of the existing files to their contents.
NoFiles == [p \in {} |-> << >>]
OldContent == << "old" >>
\* r.content of a finished download of u.
Content(u) == << "content of " >> \o u

\* A faulty variant of OpenWB: the file is opened for appending, not truncated.
OpenAppend(files, target) ==
    [p \in DOMAIN files \cup {target} |->
        IF p \in DOMAIN files THEN files[p] ELSE << >>]

\* open(target, 'wb') (line 320): the file is created or truncated.
OpenWB(files, target) ==
    [p \in DOMAIN files \cup {target} |->
        IF p = target THEN << >> ELSE files[p]]

\* i.write(content) (line 321) on the file just opened.
Write(files, target, content) ==
    [p \in DOMAIN files \cup {target} |->
        IF p = target THEN content ELSE files[p]]

\* requests.get(u) can only connect when u has an http:// scheme (requests
\* raises MissingSchema / InvalidSchema before any I/O otherwise).
CanConnect(u) ==
    /\ Len(u) >= 7
    /\ SubSeq(u, 1, 7) = << "h", "t", "t", "p", ":", "/", "/" >>

\* A faulty variant of SelectFinds: the three searches are merged.
SelectFindsMerged(b) ==
    find_in_response(b, Str(img_src), << >>)
    \o find_in_response(b, Str(url), << >>)
    \o find_in_response(b, Str(hdurl), << >>)

\* Lines 330-332.
SelectFinds(b) ==
    LET found == find_in_response(b, Str(img_src), << >>)
    IN  IF Len(found) = 0
        THEN find_in_response(b, Str(url), << >>)
             \o find_in_response(b, Str(hdurl), << >>)
        ELSE found

\* ------------------------------------------------------------ HTTP gateway
RateHeader == "X-RateLimit-Remaining"
BaseHeaders == ("Content-Type" :> "application/json")
HeaderSets ==
    {BaseHeaders, BaseHeaders @@ (RateHeader :> "39"),
     BaseHeaders @@ (RateHeader :> "40")}
Statuses == {200, 204, 401, 403, 404, 500}
\* r.json(): the parsed body, or a ValueError when the body is not JSON.
JsonBodies == {[ok |-> TRUE, val |-> Dict(<< >>)], [ok |-> FALSE, val |-> None]}
\* The body of a 4xx/5xx response is never parsed: one body stands for all.
Responses ==
    {r \in [status_code : Statuses, headers : HeaderSets, json : JsonBodies] :
        r.status_code >= 400 => ~r.json.ok}
NoResponse == [status_code |-> 0, headers |-> BaseHeaders,
               json |-> [ok |-> FALSE, val |-> None]]

\* What a call ends with: kind "returned" (body the result) or an exception.
Outcome(kind, error, r, b) ==
    [kind |-> kind, error |-> error, status |-> r.status_code,
     headers |-> r.headers, body |-> b]
NoOutcome == Outcome("none", "", NoResponse, None)

\* Lines 14-22: HorizonException(error, response); str() is the error.
HorizonException(error, r) == Outcome("HorizonException", error, r, None)
HorizonException_str(e) == e.error

\* requests' Response.raise_for_status() (line 52): an HTTPError carrying the
\* response for a 4xx or 5xx status, nothing otherwise.
raise_for_status(r) ==
    IF r.status_code >= 400 /\ r.status_code < 600
    THEN Outcome("HTTPError", "", r, None)
    ELSE NoOutcome

\* A faulty variant of raise_status: 403 is reported as Unauthorized.
raise_status_403_as_401(r) ==
    IF r.status_code # 200
    THEN IF r.status_code = 401 \/ r.status_code = 403
         THEN HorizonException("Unauthorized", r)
         ELSE IF r.status_code = 404 THEN HorizonException("Not Found", r)
         ELSE raise_for_status(r)
    ELSE NoOutcome

\* Lines 39-52: the exception raised, NoOutcome when none is.
raise_status(r) ==
    IF r.status_code # 200
    THEN IF r.status_code = 401 THEN HorizonException("Unauthorized", r)
         ELSE IF r.status_code = 403 THEN HorizonException("Forbidden", r)
         ELSE IF r.status_code = 404 THEN HorizonException("Not Found", r)
         ELSE raise_for_status(r)
    ELSE NoOutcome

\* A faulty variant of BuildArgs: None entries are sent too.
BuildArgsKeepNone(k, kwargs) ==
    [p \in {"api_key"} \cup DOMAIN kwargs |->
        IF p \in DOMAIN kwargs THEN kwargs[p] ELSE Str(<< k >>)]

\* Lines 122-125: args = {'api_key': self.key}, then every kwarg that is not
\* None is stored under its name.
BuildArgs(k, kwargs) ==
    [p \in {"api_key"} \cup {q \in DOMAIN kwargs : kwargs[q] # None} |->
        IF p \in DOMAIN kwargs /\ kwargs[p] # None THEN kwargs[p]
        ELSE Str(<< k >>)]

ClientKeys == {"DEMO_KEY", "K1"}
ParamValues == {None, Str(<< "v" >>)}
NoKwargs == [p \in {} |-> None]
NoCall == [url |-> << >>, kwargs |-> NoKwargs]
\* The keyword arguments a caller may pass: at most MaxKwargs of the names.
KwargsOver(names) ==
    UNION {[S -> ParamValues] :
           S \in {T \in SUBSET (names \cup {"api_key"}) : Cardinality(T) <= MaxKwargs}}

VARIABLES
    \* find_in_response alone
    body, condition, results, searched,
    \* image_walk
    response_body, directory, name, dirExists, fs0, fs, finds, i, pc, gets,
    opened, error,
    \* the client and its last call
    key, rate_limit_remaining, client_pc, call, sent, response, outcome,
    last_returned

findVars == <<body, condition, results, searched>>
walkVars == <<response_body, directory, name, dirExists, fs0, fs, finds, i,
              pc, gets, opened, error>>
clientVars == <<key, rate_limit_remaining, client_pc, call, sent, response,
                outcome, last_returned>>
vars == <<findVars, walkVars, clientVars>>

FindIdle ==
    /\ body = None
    /\ condition = None
    /\ results = << >>
    /\ searched = FALSE

WalkIdle ==
    /\ response_body = None
    /\ directory = << "D" >>
    /\ name = << "image" >>
    /\ dirExists = TRUE
    /\ fs0 = NoFiles
    /\ fs = NoFiles
    /\ finds = << >>
    /\ i = 0
    /\ pc = "idle"
    /\ gets = << >>
    /\ opened = << >>
    /\ error = ""

\* Lines 117-119.
ClientInit ==
    /\ key \in ClientKeys
    /\ rate_limit_remaining = "Unknown"
    /\ client_pc = "ready"
    /\ call = NoCall
    /\ sent = << >>
    /\ response = NoResponse
    /\ outcome = NoOutcome
    /\ last_returned = "Unknown"

\* The default client, Horizon().
ClientIdle ==
    /\ ClientInit
    /\ key = "DEMO_KEY"

\* ----------------------------------------------------------------- search
InitFind ==
    /\ body \in FindBodies
    /\ condition \in Conditions
    /\ results = << >>
    /\ searched = FALSE
    /\ WalkIdle
    /\ ClientIdle

Search ==
    /\ ~searched
    /\ results' = find_in_response(body, condition, << >>)
    /\ searched' = TRUE
    /\ UNCHANGED <<body, condition, walkVars, clientVars>>

NextFind == Search

SpecFind == InitFind /\ [][NextFind]_vars
\* -------------------------------------------------------------- image_walk
Names == {<< "image" >>, << "p", "1" >>}

\* The file the first image of a default-named walk is saved to.
FirstDefaultTarget == << "D", "/", "image", "1", ".", "j", "p", "g" >>

InitWalk ==
    /\ response_body \in WalkBodies
    /\ directory = << "D" >>
    /\ name \in Names
    /\ \/ dirExists = FALSE /\ fs0 = NoFiles
       \/ dirExists = TRUE /\ fs0 = NoFiles
       \/ dirExists = TRUE /\ fs0 = Write(NoFiles, FirstDefaultTarget, OldContent)
    /\ fs = fs0
    /\ finds = << >>
    /\ i = 0
    /\ pc = "idle"
    /\ gets = << >>
    /\ opened = << >>
    /\ error = ""
    /\ FindIdle
    /\ ClientIdle

\* A faulty variant of Raise: the failure is swallowed and the loop goes on.
RaiseSwallowed(e) ==
    /\ pc' = "loop"
    /\ error' = e
    /\ i' = i + 1

\* An exception e leaves image_walk: nothing in lines 323-337 catches it.
Raise(e) ==
    /\ pc' = "raised"
    /\ error' = e
    /\ i' = i

\* Lines 330-332: the call, up to the loop.
ImageWalk ==
    /\ pc = "idle"
    /\ finds' = SelectFinds(response_body)
    /\ pc' = "loop"
    /\ UNCHANGED <<response_body, directory, name, dirExists, fs0, fs, i, gets,
                   opened, error, findVars, clientVars>>

\* Lines 333-337 and 317-320 for the (i+1)-th find: the path is resolved, the
\* extension computed and the file opened.
SaveImageOpen ==
    /\ pc = "loop"
    /\ i < Len(finds)
    /\ LET image == Resolve(response_body, finds[i + 1])
       IN  IF image = Err \/ image.t # "str"
           THEN Raise("TypeError") /\ UNCHANGED <<fs, opened>>
           ELSE IF ~dirExists
           THEN Raise("IOError") /\ UNCHANGED <<fs, opened>>
           ELSE LET target == TargetPath(image.s, directory, SaveName(name, i))
                IN  /\ fs' = OpenWB(fs, target)
                    /\ opened' = Append(opened, target)
                    /\ pc' = "get"
                    /\ UNCHANGED <<i, error>>
    /\ UNCHANGED <<response_body, directory, name, dirExists, fs0, finds, gets,
                   findVars, clientVars>>

\* Line 321: requests.get(img) and the write of its content; the with block
\* closes the file either way.
SaveImageGet ==
    /\ pc = "get"
    /\ LET img == Resolve(response_body, finds[i + 1]).s
           target == opened[Len(opened)]
       IN  /\ gets' = Append(gets, img)
           /\ \/ /\ CanConnect(img)
                 /\ fs' = Write(fs, target, Content(img))
                 /\ i' = i + 1
                 /\ pc' = "loop"
                 /\ UNCHANGED error
              \/ /\ Raise("RequestException")
                 /\ UNCHANGED fs
    /\ UNCHANGED <<response_body, directory, name, dirExists, fs0, finds,
                   opened, findVars, clientVars>>

\* The loop of line 333 is exhausted.
ImageWalkReturn ==
    /\ pc = "loop"
    /\ i = Len(finds)
    /\ pc' = "done"
    /\ UNCHANGED <<response_body, directory, name, dirExists, fs0, fs, finds,
                   i, gets, opened, error, findVars, clientVars>>

NextWalk ==
    \/ ImageWalk
    \/ SaveImageOpen
    \/ SaveImageGet
    \/ ImageWalkReturn

SpecWalk == InitWalk /\ [][NextWalk]_vars
\* ------------------------------------------------------------ base_request
\* Lines 121-130: the query is built and the one GET is issued.
BaseRequest(u, kwargs) ==
    /\ client_pc = "ready"
    /\ call' = [url |-> u, kwargs |-> kwargs]
    /\ sent' = << [url |-> << "https://api.nasa.gov/" >> \o u,
                   params |-> BuildArgs(key, kwargs)] >>
    /\ client_pc' = "awaiting"
    /\ UNCHANGED <<key, rate_limit_remaining, response, outcome, last_returned,
                   findVars, walkVars>>

\* Lines 131-133: the response r arrives; raise_status, then the rate-limit
\* header is stored, then the body is parsed.
Respond ==
    /\ client_pc = "awaiting"
    /\ \E r \in Responses :
          /\ response' = r
          /\ IF raise_status(r) # NoOutcome
             THEN /\ outcome' = raise_status(r)
                  /\ UNCHANGED rate_limit_remaining
             ELSE IF RateHeader \notin DOMAIN r.headers
             THEN /\ outcome' = Outcome("KeyError", RateHeader, r, None)
                  /\ UNCHANGED rate_limit_remaining
             ELSE /\ rate_limit_remaining' = r.headers[RateHeader]
                  /\ outcome' = IF r.json.ok
                                THEN Outcome("returned", "", r, r.json.val)
                                ELSE Outcome("ValueError", "", r, None)
          /\ last_returned' = IF outcome'.kind = "returned"
                              THEN r.headers[RateHeader]
                              ELSE last_returned
    /\ client_pc' = "ended"
    /\ UNCHANGED <<key, call, sent, findVars, walkVars>>

\* The caller has the result or the exception; the client is ready again.
Return ==
    /\ client_pc = "ended"
    /\ client_pc' = "ready"
    /\ call' = NoCall
    /\ sent' = << >>
    /\ response' = NoResponse
    /\ outcome' = NoOutcome
    /\ UNCHANGED <<key, rate_limit_remaining, last_returned, findVars, walkVars>>

\* ------------------------------------------------------- endpoint catalogue
asteroids_neows_version == "1"
mars_rovers_photos_version == "1"
RoverNames == {"curiosity"}
Sols == {PyInt(1000), None}
Dates == {Str(<< "2015-6-3" >>), None}
AsteroidIds == {"3542519"}

\* Lines 135-145.
apod ==
    \E kwargs \in KwargsOver({"date", "hd"}) :
        BaseRequest(<< "planetary/apod" >>, kwargs)

\* Lines 147-166.
martian_sol ==
    \E rover \in RoverNames, sol \in Sols,
       kwargs \in KwargsOver({"camera", "page"}) :
        BaseRequest(<< "/mars-photos/api/v", mars_rovers_photos_version,
                       "/rovers/", rover, "/photos" >>,
                    ("sol" :> sol) @@ kwargs)

\* Lines 168-187.
earth_date ==
    \E rover \in RoverNames, date \in Dates,
       kwargs \in KwargsOver({"camera", "page"}) :
        BaseRequest(<< "/mars-photos/api/v", mars_rovers_photos_version,
                       "/rovers/", rover, "/photos" >>,
                    ("earth_date" :> date) @@ kwargs)

\* Lines 189-199.
imagery ==
    \E kwargs \in KwargsOver({"lat", "lon", "dim", "date", "cloud_score"}) :
        BaseRequest(<< "planetary/earth/imagery" >>, kwargs)

\* Lines 201-211.
assets ==
    \E kwargs \in KwargsOver({"lat", "lon", "begin", "end"}) :
        BaseRequest(<< "planetary/earth/assets" >>, kwargs)

\* Lines 213-229.
neo_feed ==
    \E start_date \in Dates, end_date \in Dates :
        BaseRequest(<< "/neo/rest/v", asteroids_neows_version, "/feed" >>,
                    ("start_date" :> start_date) @@ ("end_date" :> end_date))

\* Lines 231-240.
neo_feed_today ==
    BaseRequest(<< "neo/rest/v", asteroids_neows_version, "/feed/today" >>,
                NoKwargs)

\* Lines 242-256.
neo_lookup ==
    \E asteroid_id \in AsteroidIds :
        BaseRequest(<< "neo/rest/v", asteroids_neows_version, "/neo/",
                       asteroid_id >>, NoKwargs)

\* Lines 258-272.
neo_browse ==
    \E kwargs \in KwargsOver({"page", "size"}) :
        BaseRequest(<< "neo/rest/v", asteroids_neows_version, "/neo/browse/" >>,
                    kwargs)

\* Lines 274-283.
neo_stats ==
    BaseRequest(<< "neo/rest/v", asteroids_neows_version, "/stats" >>, NoKwargs)

\* Lines 285-295.
patents ==
    \E kwargs \in KwargsOver({"query", "concept_tags", "limit"}) :
        BaseRequest(<< "/patents/content" >>, kwargs)

\* Lines 297-307.
sounds ==
    \E kwargs \in KwargsOver({"q", "limit"}) :
        BaseRequest(<< "planetary/sounds" >>, kwargs)

Init ==
    /\ ClientInit
    /\ FindIdle
    /\ WalkIdle

Next ==
    \/ apod
    \/ martian_sol
    \/ earth_date
    \/ imagery
    \/ assets
    \/ neo_feed
    \/ neo_feed_today
    \/ neo_lookup
    \/ neo_browse
    \/ neo_stats
    \/ patents
    \/ sounds
    \/ Respond
    \/ Return

Spec == Init /\ [][Next]_vars
\* =================================================================== claims
\* ------------------------------------------------------ helpers of claims
IsPrefix(p, q) == Len(p) <= Len(q) /\ SubSeq(q, 1, Len(p)) = p

\* The position of segment seg in container c, 0 when c has no such entry.
PositionIn(c, seg) ==
    IF c.t = "list" /\ seg.t = "int" /\ seg.n >= 0 /\ seg.n < Len(c.kids)
    THEN seg.n + 1
    ELSE IF c.t = "dict" /\ seg.t = "str"
            /\ \E m \in 1..Len(c.kids) : c.kids[m].key = seg.s
    THEN CHOOSE m \in 1..Len(c.kids) : c.kids[m].key = seg.s
    ELSE 0

\* Every dict of b with the path leading to it.
RECURSIVE DictsOf(_, _)
DictsOf(b, path) ==
    IF b.t = "list"
    THEN UNION {DictsOf(b.kids[m].val, Append(path, PyInt(m - 1))) :
                m \in 1..Len(b.kids)}
    ELSE IF b.t = "dict"
    THEN {[path |-> path, node |-> b]}
         \cup UNION {DictsOf(b.kids[m].val, Append(path, Str(b.kids[m].key))) :
                     m \in 1..Len(b.kids)}
    ELSE {}

Range(seq) == {seq[m] : m \in 1..Len(seq)}

\* p is yielded before q in traversal order: where they part, p goes into an
\* earlier entry of the container; when one extends the other, the longer
\* (the match nested deeper) comes first.
Before(b, p, q) ==
    IF IsPrefix(q, p) THEN Len(p) > Len(q)
    ELSE IF IsPrefix(p, q) THEN FALSE
    ELSE LET d == CHOOSE m \in 1..Len(p) :
                     /\ m <= Len(q)
                     /\ p[m] # q[m]
                     /\ SubSeq(p, 1, m - 1) = SubSeq(q, 1, m - 1)
             c == Resolve(b, SubSeq(p, 1, d - 1))
         IN  /\ PositionIn(c, p[d]) > 0
             /\ PositionIn(c, p[d]) < PositionIn(c, q[d])

\* C1: every path find_in_response yields resolves against the body, by
\* successive key/index lookups without error, and ends at a key or value
\* equal to the condition.
C1_EveryPathResolves ==
    searched =>
        \A k \in 1..Len(results) :
            /\ Resolve(body, results[k]) # Err
            /\ \/ PyEq(results[k][Len(results[k])], condition)
               \/ PyEq(Resolve(body, results[k]), condition)

\* C2: a response whose status is not 200, 401, 403 or 404 ends base_request
\* with a generic HTTP error carrying that status; no body is returned and
\* rate_limit_remaining is not updated.
C2_OtherStatusIsHttpError ==
    [][(client_pc = "awaiting" /\ client_pc' = "ended"
        /\ response'.status_code \notin {200, 401, 403, 404})
       => /\ outcome'.kind = "HTTPError"
          /\ outcome'.status = response'.status_code
          /\ rate_limit_remaining' = rate_limit_remaining]_vars

\* C3: status 401, 403, 404 raise a HorizonException whose string form is
\* "Unauthorized", "Forbidden", "Not Found", carrying the response's headers;
\* status 200 raises no HorizonException.
C3_NamedStatuses ==
    client_pc = "ended" =>
        /\ \A pair \in {<<401, "Unauthorized">>, <<403, "Forbidden">>,
                        <<404, "Not Found">>} :
              response.status_code = pair[1] =>
                  /\ outcome.kind = "HorizonException"
                  /\ HorizonException_str(outcome) = pair[2]
                  /\ outcome.headers = response.headers
        /\ response.status_code = 200 => outcome.kind # "HorizonException"

C3_Witness ==
    /\ client_pc = "ended"
    /\ response.status_code = 403
    /\ RateHeader \in DOMAIN response.headers
    /\ outcome.kind = "HorizonException"
    /\ outcome.error = "Forbidden"

\* C4: rate_limit_remaining is the X-RateLimit-Remaining header of the most
\* recent call that returned successfully, "Unknown" when none has; a call
\* that raises leaves it unchanged.
C4_RateLimitOfLastSuccess == rate_limit_remaining = last_returned

\* C5: the query of the single GET is {api_key: key} extended with exactly the
\* keyword arguments that are not None.
C5_QueryDropsNone ==
    client_pc \in {"awaiting", "ended"} =>
        /\ Len(sent) = 1
        /\ LET query == sent[1].params
               given == {q \in DOMAIN call.kwargs : call.kwargs[q] # None}
           IN  /\ DOMAIN query = {"api_key"} \cup given
               /\ \A q \in given : query[q] = call.kwargs[q]
               /\ "api_key" \notin given => query["api_key"] = Str(<< key >>)
               /\ \A q \in DOMAIN query : query[q] # None

C5_Witness ==
    /\ client_pc = "awaiting"
    /\ \E q \in DOMAIN call.kwargs : call.kwargs[q] = None
    /\ \E q \in DOMAIN call.kwargs : q # "api_key" /\ call.kwargs[q] # None
    /\ DOMAIN sent[1].params # DOMAIN call.kwargs \cup {"api_key"}

\* C6: image_walk uses the img_src paths alone when there is one, and
\* otherwise the url paths followed by the hdurl paths.
C6_FallbackNotMerge ==
    pc # "idle" =>
        LET byImg == find_in_response(response_body, Str(img_src), << >>)
            byUrl == find_in_response(response_body, Str(url), << >>)
            byHd == find_in_response(response_body, Str(hdurl), << >>)
        IN  IF Len(byImg) > 0
            THEN /\ finds = byImg
                 /\ Range(finds) \cap (Range(byUrl) \cup Range(byHd)) = {}
            ELSE finds = byUrl \o byHd

C6_Witness ==
    /\ pc # "idle"
    /\ Len(finds) > 0
    /\ finds = find_in_response(response_body, Str(img_src), << >>)
    /\ Len(find_in_response(response_body, Str(url), << >>)) > 0

\* The extension of URL u: from the last dot of its last path component, when
\* a character other than a dot precedes that dot in the component.
ExtensionOf(u) ==
    LET start == IF \E m \in 1..Len(u) : u[m] = "/"
                 THEN 1 + CHOOSE m \in 1..Len(u) :
                              u[m] = "/" /\ \A m2 \in (m + 1)..Len(u) : u[m2] # "/"
                 ELSE 1
        dots == {m \in start..Len(u) : u[m] = "."}
    IN  IF dots = {} THEN << >>
        ELSE LET last == CHOOSE m \in dots : \A m2 \in dots : m2 <= m
             IN  IF \E m \in start..(last - 1) : u[m] # "."
                 THEN SubSeq(u, last, Len(u))
                 ELSE << >>

\* The k-th selected URL.
UrlOf(k) == Resolve(response_body, finds[k]).s

\* C7: the k-th file opened is {directory}/{name}{k}{ext}, ext the lower-cased
\* extension of the k-th URL or .jpg when it has none; the files of the
\* images saved so far hold what was downloaded.
C7_TargetNames ==
    /\ Len(opened) <= Len(finds)
    /\ \A k \in 1..Len(opened) :
          /\ opened[k] = directory \o << "/" >> \o name \o Decimal(k)
                         \o (IF ExtensionOf(UrlOf(k)) = << >>
                             THEN << ".", "j", "p", "g" >>
                             ELSE lower(ExtensionOf(UrlOf(k))))
          /\ UrlOf(k) \in {UrlA, UrlB, img_src}
             => opened[k] = directory \o << "/" >> \o name \o Decimal(k)
                            \o << ".", "j", "p", "g" >>
    /\ \A k \in 1..i : fs[opened[k]] = Content(UrlOf(k))

C7_Witness ==
    /\ pc = "done"
    /\ name = << "image" >>
    /\ Len(finds) = 2
    /\ UrlOf(1) = UrlA
    /\ UrlOf(2) = UrlB
    /\ opened = << << "D", "/", "image", "1", ".", "j", "p", "g" >>,
                   << "D", "/", "image", "2", ".", "j", "p", "g" >> >>
    /\ fs[opened[1]] = Content(UrlA)
    /\ fs[opened[2]] = Content(UrlB)

\* C8: find_in_response yields in traversal order, nested matches before the
\* pair's own match and before later siblings; a pair whose key is the
\* condition yields path + [key] and never path + [key, value].
C8_TraversalOrder ==
    searched =>
        /\ \A a \in 1..Len(results) : \A b \in (a + 1)..Len(results) :
              Before(body, results[a], results[b])
        /\ \A d \in DictsOf(body, << >>) : \A m \in 1..Len(d.node.kids) :
              PyEq(condition, Str(d.node.kids[m].key)) =>
                  /\ Append(d.path, Str(d.node.kids[m].key)) \in Range(results)
                  /\ Append(Append(d.path, Str(d.node.kids[m].key)),
                            d.node.kids[m].val) \notin Range(results)

C8_Witness ==
    /\ searched
    /\ Len(results) >= 3
    /\ \E a \in 1..Len(results) : \E b \in (a + 1)..Len(results) :
          IsPrefix(results[b], results[a])
    /\ \E d \in DictsOf(body, << >>) : \E m \in 1..Len(d.node.kids) :
          /\ PyEq(condition, Str(d.node.kids[m].key))
          /\ PyEq(condition, d.node.kids[m].val)

\* C9: downloads are sequential and fail-fast: a download is issued only when
\* the files of all earlier images are written, a failure at image i + 1 ends
\* the walk with no later request, and the earlier files remain.
C9_SequentialFailFast ==
    /\ Len(gets) <= Len(opened)
    /\ Len(opened) <= Len(gets) + 1
    /\ \A k \in 1..Len(gets) : gets[k] = UrlOf(k)
    /\ \A k \in 1..Len(opened) : \A j \in 1..(k - 1) :
          /\ opened[j] # opened[k]
          /\ fs[opened[j]] = Content(gets[j])
    /\ error # "" =>
          /\ pc = "raised"
          /\ i < Len(finds)
          /\ Len(gets) <= i + 1
          /\ Len(opened) <= i + 1
          /\ \A j \in 1..i : fs[opened[j]] = Content(gets[j])

C9_Witness ==
    /\ pc = "raised"
    /\ error = "RequestException"
    /\ Len(gets) = i + 1
    /\ i + 1 < Len(finds)
    /\ CanConnect(UrlOf(i + 2))

\* C10: save_image opens (creates or truncates) the target before the GET;
\* when the download fails the target exists and is empty, whatever it held.
C10_OpenBeforeGet ==
    /\ pc = "get" =>
          /\ Len(gets) = Len(opened) - 1
          /\ opened[Len(opened)] \in DOMAIN fs
          /\ fs[opened[Len(opened)]] = << >>
    /\ (pc = "raised" /\ error = "RequestException") =>
          /\ Len(gets) = Len(opened)
          /\ opened[Len(opened)] \in DOMAIN fs
          /\ fs[opened[Len(opened)]] = << >>

C10_Witness ==
    /\ pc = "raised"
    /\ error = "RequestException"
    /\ opened[Len(opened)] \in DOMAIN fs0
    /\ fs0[opened[Len(opened)]] = OldContent
    /\ fs[opened[Len(opened)]] = << >>
    /\ CanConnect(gets[Len(gets)])
====
